---- MODULE Spec2Model ----
(***************************************************************************)
(* Model of fetch_data.py: the text-to-price extraction (extract_price,    *)
(* is_valid_price), the market parser (parse_markets) and the expected     *)
(* value calculations (calculate_expected_high / calculate_expected_low).  *)
(*                                                                         *)
(* Numbers.  A probability is kept in tenths of a percent (0..1000), the   *)
(* unit round(probability, 1) leaves; dividing by 100 as the code does     *)
(* gives thousandths, so the same integer read as per-mille is the         *)
(* cumulative fraction.  Floating point arithmetic is modelled by exact    *)
(* arithmetic on these scaled integers; a price read from a text is the    *)
(* exact decimal n / d.                                                    *)
(*                                                                         *)
(* Three specifications share the variables: SpecEV (the calculations),    *)
(* SpecExtract (extract_price) and SpecParse (parse_markets); each leaves  *)
(* the variables of the other two at rest.  A definition introduced as a   *)
(* "faulty variant" is a deliberately wrong version of the definition that *)
(* follows it, kept to show that the theorems notice the difference.       *)
(***************************************************************************)
EXTENDS Integers, Sequences, FiniteSets, TLC

VARIABLES
    \* calculate_expected_high / calculate_expected_low
    data,            \* the list passed as upside_data / downside_data
    current_price,   \* the reference price
    called,          \* "none", "high" or "low": which function has returned
    sorted_data,     \* local sorted_data
    marginal_probs,  \* local marginal_probs (marginal in per-mille)
    prob_residual,   \* local prob_below_lowest / prob_above_highest (per-mille)
    expected,        \* the returned value
    \* extract_price
    question,        \* the text, a sequence of characters
    asset_key,       \* "btc", "eth" or "sol"
    extract_done,    \* extract_price has returned
    extracted,       \* the value extract_price returned
    \* parse_markets
    event,           \* event['markets'], a sequence of market records
    idx,             \* number of markets the loop has gone through
    upside,          \* local upside
    downside,        \* local downside
    parse_done       \* parse_markets has returned (upside, downside)

evVars == <<data, current_price, called, sorted_data, marginal_probs,
            prob_residual, expected>>

exVars == <<question, asset_key, extract_done, extracted>>

paVars == <<event, idx, upside, downside, parse_done>>

vars == <<evVars, exVars, paVars>>

----------------------------------------------------------------------------
(* Python values *)

None == [isNone |-> TRUE, v |-> 0]
Some(x) == [isNone |-> FALSE, v |-> x]

\* A price is the float n / d with d a power of ten, kept in lowest such
\* terms so that equal floats are equal records.
NoPrice == [isNone |-> TRUE, n |-> 0, d |-> 1]

RECURSIVE Price(_, _)
Price(n, d) ==
    IF d > 1 /\ n % 10 = 0 THEN Price(n \div 10, d \div 10)
    ELSE [isNone |-> FALSE, n |-> n, d |-> d]

----------------------------------------------------------------------------
(* Bounds and input pools of the expected-value specification *)

MaxLadder == 3

LadderPrices == {100000, 120000, 150000, 200000}
LadderProbs == {0, 200, 550, 700, 1000}
ReferencePrices == {95000, 95001, 130000, 210000}

Entry(p, c) == [price |-> p, probability |-> c]

LadderEntries == {Entry(p, c) : p \in LadderPrices, c \in LadderProbs}

\* A ladder reaches the calculations from parse_markets, which leaves one
\* entry per price; the calculations sort it themselves, so any order is fed.
DistinctPrices(xs) ==
    \A i, j \in 1..Len(xs) : i # j => xs[i].price # xs[j].price

Ladders ==
    {xs \in UNION {[1..n -> LadderEntries] : n \in 0..MaxLadder} :
        DistinctPrices(xs)}

----------------------------------------------------------------------------
(* sorted(xs, key=price) and sorted(xs, key=price, reverse=True): both are *)
(* stable, equal keys keep their input order.                              *)

RECURSIVE InsertAsc(_, _)
InsertAsc(s, x) ==
    IF s = <<>> THEN <<x>>
    ELSE IF s[Len(s)].price <= x.price THEN Append(s, x)
    ELSE Append(InsertAsc(SubSeq(s, 1, Len(s) - 1), x), s[Len(s)])

RECURSIVE SortByPrice(_)
SortByPrice(xs) ==
    IF xs = <<>> THEN <<>>
    ELSE InsertAsc(SortByPrice(SubSeq(xs, 1, Len(xs) - 1)), xs[Len(xs)])

RECURSIVE InsertDesc(_, _)
InsertDesc(s, x) ==
    IF s = <<>> THEN <<x>>
    ELSE IF s[Len(s)].price >= x.price THEN Append(s, x)
    ELSE Append(InsertDesc(SubSeq(s, 1, Len(s) - 1), x), s[Len(s)])

RECURSIVE SortByPriceDesc(_)
SortByPriceDesc(xs) ==
    IF xs = <<>> THEN <<>>
    ELSE InsertDesc(SortByPriceDesc(SubSeq(xs, 1, Len(xs) - 1)), xs[Len(xs)])

----------------------------------------------------------------------------
(* The loop body of both calculations: marginal = max(0, cumulative_prob - *)
(* next_cumulative), next_cumulative being 0 after the last level.         *)

Max0(x) == IF x > 0 THEN x ELSE 0

\* faulty variant: the last level takes its own probability as the next one
NextCumulativeNoLast(sd, i) ==
    IF i + 1 <= Len(sd) THEN sd[i + 1].probability ELSE sd[i].probability

\* lines 278-281
NextCumulative(sd, i) ==
    IF i + 1 <= Len(sd) THEN sd[i + 1].probability ELSE 0

\* faulty variant: the difference without max(0, .)
MarginalNoClamp(sd, i) == sd[i].probability - NextCumulative(sd, i)

\* line 283
Marginal(sd, i) == Max0(sd[i].probability - NextCumulative(sd, i))

MarginalProbs(sd) ==
    [i \in 1..Len(sd) |-> [price |-> sd[i].price, marginal |-> Marginal(sd, i)]]

\* faulty variant: the residual read off the last level
ProbResidualLast(sd) == 1000 - sd[Len(sd)].probability

\* 1 - sorted_data[0]['probability'] / 100, in per-mille
ProbResidual(sd) == 1000 - sd[1].probability

RECURSIVE WeightedSum(_)
WeightedSum(mp) ==
    IF mp = <<>> THEN 0
    ELSE WeightedSum(SubSeq(mp, 1, Len(mp) - 1))
         + mp[Len(mp)].price * mp[Len(mp)].marginal

\* faulty variant: truncation
NoRound(n) == n \div 1000

\* round(x, 0) of x = n / 1000, n >= 0: to the nearest integer, ties to even
Round0(n) ==
    LET q == n \div 1000
        r == n % 1000
    IN  IF r < 500 THEN q
        ELSE IF r > 500 THEN q + 1
        ELSE IF q % 2 = 0 THEN q ELSE q + 1

ExpectedFrom(sd, cur) ==
    Round0(cur * ProbResidual(sd) + WeightedSum(MarginalProbs(sd)))

calculate_expected_high(upside_data, cur) ==
    IF upside_data = <<>> THEN None
    ELSE Some(ExpectedFrom(SortByPrice(upside_data), cur))

calculate_expected_low(downside_data, cur) ==
    IF downside_data = <<>> THEN None
    ELSE Some(ExpectedFrom(SortByPriceDesc(downside_data), cur))

----------------------------------------------------------------------------
(* Specification SpecEV: the two calculations on every bounded ladder *)

IdleParse ==
    /\ event = <<>>
    /\ idx = 0
    /\ upside = <<>>
    /\ downside = <<>>
    /\ parse_done = FALSE

IdleEx ==
    /\ question = <<>>
    /\ asset_key = "btc"
    /\ extract_done = FALSE
    /\ extracted = NoPrice

InitEV ==
    /\ IdleEx
    /\ IdleParse
    /\ data \in Ladders
    /\ current_price \in ReferencePrices
    /\ called = "none"
    /\ sorted_data = <<>>
    /\ marginal_probs = <<>>
    /\ prob_residual = 0
    /\ expected = None

CalcExpectedHigh ==
    /\ called = "none"
    /\ called' = "high"
    /\ expected' = calculate_expected_high(data, current_price)
    /\ IF data = <<>>
       THEN UNCHANGED <<sorted_data, marginal_probs, prob_residual>>
       ELSE /\ sorted_data' = SortByPrice(data)
            /\ marginal_probs' = MarginalProbs(SortByPrice(data))
            /\ prob_residual' = ProbResidual(SortByPrice(data))
    /\ UNCHANGED <<data, current_price, exVars, paVars>>

CalcExpectedLow ==
    /\ called = "none"
    /\ called' = "low"
    /\ expected' = calculate_expected_low(data, current_price)
    /\ IF data = <<>>
       THEN UNCHANGED <<sorted_data, marginal_probs, prob_residual>>
       ELSE /\ sorted_data' = SortByPriceDesc(data)
            /\ marginal_probs' = MarginalProbs(SortByPriceDesc(data))
            /\ prob_residual' = ProbResidual(SortByPriceDesc(data))
    /\ UNCHANGED <<data, current_price, exVars, paVars>>

NextEV == CalcExpectedHigh \/ CalcExpectedLow

SpecEV == InitEV /\ [][NextEV]_vars

----------------------------------------------------------------------------
(* Claims about the expected-value calculations (checked under SpecEV) *)

RECURSIVE SumMarginals(_)
SumMarginals(mp) ==
    IF mp = <<>> THEN 0
    ELSE SumMarginals(SubSeq(mp, 1, Len(mp) - 1)) + mp[Len(mp)].marginal

\* total mass the calculation has just used, in per-mille
Mass == SumMarginals(marginal_probs) + prob_residual

Returned == called # "none" /\ data # <<>>

\* cumulative probabilities never rise along the order the calculation used
NonIncreasing(sd) ==
    \A i, j \in 1..Len(sd) : i < j => sd[i].probability >= sd[j].probability

\* C1 as stated: for every non-empty ladder, including non-monotone ones,
\* the clamped marginals plus the residual mass sum to at most 1.
C1_MassAtMostOne == Returned => Mass <= 1000

\* C1 amended: the clamped marginals plus the residual mass sum to at least
\* 1, and to exactly 1 precisely when the cumulative probabilities are
\* non-increasing along the order used.
C1_MassAtLeastOne ==
    Returned => /\ Mass >= 1000
                /\ (Mass = 1000 <=> NonIncreasing(sorted_data))

\* a non-monotone ladder of two or more levels has been evaluated
C1_Witness ==
    /\ Returned
    /\ Len(data) >= 2
    /\ ~NonIncreasing(sorted_data)
    /\ Mass > 1000

\* C10: for a non-empty UP ladder whose cumulative probabilities are
\* non-increasing as price increases, calculate_expected_high's marginals
\* plus the residual mass sum to exactly 1.
C10_ConsistentMassIsOne ==
    (/\ called = "high"
     /\ data # <<>>
     /\ \A i, j \in 1..Len(data) :
            data[i].price < data[j].price
                => data[i].probability >= data[j].probability)
        => Mass = 1000

\* a strictly decreasing three-level ladder, given out of order
C10_Witness ==
    /\ called = "high"
    /\ Len(data) = 3
    /\ \A i, j \in 1..Len(data) :
            data[i].price < data[j].price
                => data[i].probability > data[j].probability
    /\ data[1].price > data[2].price
    /\ Mass = 1000

\* every cumulative probability raised by the same amount d
Raised(xs, d) ==
    [i \in 1..Len(xs) |-> Entry(xs[i].price, xs[i].probability + d)]

CanRaise(xs, d) == \A i \in 1..Len(xs) : xs[i].probability + d <= 1000

Deltas == {0, 1, 50, 150, 300, 450, 800}

HighestPrice(xs) ==
    CHOOSE p \in {xs[i].price : i \in 1..Len(xs)} :
        \A i \in 1..Len(xs) : xs[i].price <= p

\* C3 as stated: for every non-empty upside ladder and reference price,
\* raising every cumulative probability by the same non-negative amount
\* never lowers the value calculate_expected_high returns.
C3_Monotone ==
    (called = "high" /\ data # <<>>) =>
        \A d \in Deltas :
            CanRaise(data, d) =>
                calculate_expected_high(Raised(data, d), current_price).v
                    >= expected.v

\* C3 amended: the same, provided the reference price does not exceed the
\* highest price of the ladder.
C3_MonotoneBelowTop ==
    (called = "high" /\ data # <<>>
        /\ current_price <= HighestPrice(data)) =>
        \A d \in Deltas :
            CanRaise(data, d) =>
                calculate_expected_high(Raised(data, d), current_price).v
                    >= expected.v

\* a raise that lifts the result of a ladder with a clamped level
C3_Witness ==
    /\ called = "high"
    /\ Len(data) >= 2
    /\ ~NonIncreasing(sorted_data)
    /\ current_price <= HighestPrice(data)
    /\ \E d \in Deltas :
          /\ d > 0
          /\ CanRaise(data, d)
          /\ calculate_expected_high(Raised(data, d), current_price).v
                > expected.v

\* The reference expectation, times 1000, written without sorting: the level
\* after entry i is the entry nearest beyond it in the direction of travel
\* (up: the least higher price; down: the greatest lower price).
Beyond(xs, i, up) ==
    {j \in 1..Len(xs) :
        IF up THEN xs[j].price > xs[i].price ELSE xs[j].price < xs[i].price}

NextLevelProb(xs, i, up) ==
    IF Beyond(xs, i, up) = {} THEN 0
    ELSE LET n == CHOOSE j \in Beyond(xs, i, up) :
                    \A k \in Beyond(xs, i, up) :
                        IF up THEN xs[j].price <= xs[k].price
                        ELSE xs[j].price >= xs[k].price
         IN  xs[n].probability

FirstLevel(xs, up) ==
    CHOOSE i \in 1..Len(xs) :
        \A k \in 1..Len(xs) :
            IF up THEN xs[i].price <= xs[k].price
            ELSE xs[i].price >= xs[k].price

RECURSIVE RefLevels(_, _, _)
RefLevels(xs, n, up) ==
    IF n = 0 THEN 0
    ELSE RefLevels(xs, n - 1, up)
         + xs[n].price
           * (IF xs[n].probability > NextLevelProb(xs, n, up)
              THEN xs[n].probability - NextLevelProb(xs, n, up) ELSE 0)

Reference1000(xs, cur, up) ==
    cur * (1000 - xs[FirstLevel(xs, up)].probability)
        + RefLevels(xs, Len(xs), up)

ExampleLadder ==
    <<Entry(100000, 700), Entry(120000, 550), Entry(150000, 200)>>

\* C4 as stated: the result is null exactly for the empty ladder, otherwise
\* it is the reference expectation itself; the example ladder with
\* reference 95000 gives 115500.
C4_ExactReference ==
    called # "none" =>
        /\ (expected.isNone <=> data = <<>>)
        /\ data # <<>> =>
              expected.v * 1000
                  = Reference1000(data, current_price, called = "high")
        /\ (called = "high" /\ data = ExampleLadder /\ current_price = 95000)
              => expected = Some(115500)

\* C4 amended: the result is null exactly for the empty ladder, otherwise it
\* is a whole number within one half of the reference expectation (the
\* reference expectation rounded to the nearest whole number); the example
\* ladder with reference 95000 gives 115500.
C4_RoundedReference ==
    called # "none" =>
        /\ (expected.isNone <=> data = <<>>)
        /\ data # <<>> =>
              LET ref == Reference1000(data, current_price, called = "high")
              IN  /\ expected.v * 1000 - ref <= 500
                  /\ ref - expected.v * 1000 <= 500
        /\ (called = "high" /\ data = ExampleLadder /\ current_price = 95000)
              => expected = Some(115500)

\* a three-level DOWN ladder whose expectation is not whole
C4_Witness ==
    /\ called = "low"
    /\ Len(data) = 3
    /\ data[1].price < data[2].price
    /\ ~expected.isNone
    /\ expected.v * 1000 # Reference1000(data, current_price, FALSE)

----------------------------------------------------------------------------
(* Text.  A text is a sequence of characters; a word the code looks for as  *)
(* a whole ("reach", "hit", ...) is one element, and stands for letters     *)
(* that are neither digits, separators, spaces nor a k.                     *)

Digits == {"0", "1", "2", "3", "4", "5", "6", "7", "8", "9"}
NumChars == Digits \cup {","}
Spaces == {" "}
KChars == {"k", "K"}

DigitChars == <<"0", "1", "2", "3", "4", "5", "6", "7", "8", "9">>
DigitValue(c) == (CHOOSE i \in 1..Len(DigitChars) : DigitChars[i] = c) - 1

\* first position from p on whose character is not in S
RECURSIVE RunEnd(_, _, _)
RunEnd(t, p, S) ==
    IF p <= Len(t) /\ t[p] \in S THEN RunEnd(t, p + 1, S) ELSE p

\* [\d,]+(?:\.\d+)? tried at p: the position after the match, p if none.
\* Both parts are greedy, and in each pattern a shorter choice leaves a
\* digit, comma or point that nothing after the group can match.
NumberEnd(t, p) ==
    LET q == RunEnd(t, p, NumChars)
    IN  IF q = p THEN p
        ELSE IF q + 1 <= Len(t) /\ t[q] = "." /\ t[q + 1] \in Digits
             THEN RunEnd(t, q + 1, Digits)
             ELSE q

NoMatch == [ok |-> FALSE, from |-> 0, to |-> 0, end |-> 0]
Match(from, to, end) == [ok |-> TRUE, from |-> from, to |-> to, end |-> end]

\* \$?([\d,]+(?:\.\d+)?)\s*[kK] tried at s
Pattern1At(t, s) ==
    LET p == IF t[s] = "$" THEN s + 1 ELSE s
        e == NumberEnd(t, p)
        w == RunEnd(t, e, Spaces)
    IN  IF e > p /\ w <= Len(t) /\ t[w] \in KChars
        THEN Match(p, e, w + 1) ELSE NoMatch

\* \$\s*([\d,]+(?:\.\d+)?) tried at s
Pattern2At(t, s) ==
    LET w == RunEnd(t, s + 1, Spaces)
        e == NumberEnd(t, w)
    IN  IF t[s] = "$" /\ e > w THEN Match(w, e, e) ELSE NoMatch

\* ([\d,]+(?:\.\d+)?) tried at s
Pattern3At(t, s) ==
    LET e == NumberEnd(t, s)
    IN  IF e > s THEN Match(s, e, e) ELSE NoMatch

PatternAt(pat, t, s) ==
    CASE pat = 1 -> Pattern1At(t, s)
      [] pat = 2 -> Pattern2At(t, s)
      [] OTHER   -> Pattern3At(t, s)

\* re.findall(pattern, question): the groups of the non-overlapping matches,
\* scanning from the left
RECURSIVE FindAllFrom(_, _, _)
FindAllFrom(pat, t, s) ==
    IF s > Len(t) THEN <<>>
    ELSE LET m == PatternAt(pat, t, s)
         IN  IF m.ok
             THEN <<SubSeq(t, m.from, m.to - 1)>> \o FindAllFrom(pat, t, m.end)
             ELSE FindAllFrom(pat, t, s + 1)

FindAll(pat, t) == FindAllFrom(pat, t, 1)

\* (\d+(?:,\d+)*(?:\.\d+)?)\s*[kK] tried at s: the integer part is the whole
\* run of digits and commas, which must start and end with a digit and hold
\* no two commas in a row
KPatternAt(t, s) ==
    LET q == RunEnd(t, s, NumChars)
        e == NumberEnd(t, s)
        w == RunEnd(t, e, Spaces)
    IN  IF /\ t[s] \in Digits
           /\ t[q - 1] \in Digits
           /\ \A i \in s..(q - 2) : ~(t[i] = "," /\ t[i + 1] = ",")
           /\ w <= Len(t) /\ t[w] \in KChars
        THEN Match(s, e, w + 1) ELSE NoMatch

\* re.search(k_pattern, question): the leftmost match
RECURSIVE KSearchFrom(_, _)
KSearchFrom(t, s) ==
    IF s > Len(t) THEN NoMatch
    ELSE LET m == KPatternAt(t, s)
         IN  IF m.ok THEN m ELSE KSearchFrom(t, s + 1)

KSearch(t) == KSearchFrom(t, 1)

\* str.replace(',', '')
RemoveCommas(str) == SelectSeq(str, LAMBDA c : c # ",")

RECURSIVE DigitsValue(_)
DigitsValue(ds) ==
    IF ds = <<>> THEN 0
    ELSE 10 * DigitsValue(SubSeq(ds, 1, Len(ds) - 1)) + DigitValue(ds[Len(ds)])

RECURSIVE Pow10(_)
Pow10(k) == IF k = 0 THEN 1 ELSE 10 * Pow10(k - 1)

\* float(num_str) for digits with at most one point; the empty string (a
\* match of commas only) raises ValueError
FloatRaises(num_str) == num_str = <<>>

Float(num_str) ==
    LET ds   == SelectSeq(num_str, LAMBDA c : c # ".")
        dot  == RunEnd(num_str, 1, Digits)
        frac == IF dot > Len(num_str) THEN 0 ELSE Len(num_str) - dot
    IN  Price(DigitsValue(ds), Pow10(frac))

Times1000(v) == Price(v.n * 1000, v.d)

\* 'k' in question.lower()
HasK(t) == \E i \in 1..Len(t) : t[i] \in KChars

\* lines 237-242 with the first match of k_pattern: the value is scaled when it
\* is below 10000 and the number's digits equal those of the first
\* k-suffixed number of the text
HandleKSuffix(t, num_str, value) ==
    LET k_pattern == KSearch(t)
    IN  IF /\ HasK(t)
           /\ value.n < 10000 * value.d
           /\ k_pattern.ok
           /\ RemoveCommas(SubSeq(t, k_pattern.from, k_pattern.to - 1))
                 = num_str
        THEN Times1000(value) ELSE value

PriceRange(asset) ==
    CASE asset = "btc" -> <<10000, 1000000>>
      [] asset = "eth" -> <<200, 100000>>
      [] asset = "sol" -> <<5, 10000>>

\* faulty variant: the bounds themselves are rejected
is_valid_price_open(price, asset) ==
    /\ PriceRange(asset)[1] * price.d < price.n
    /\ price.n < PriceRange(asset)[2] * price.d

\* lo <= price <= hi
is_valid_price(price, asset) ==
    /\ PriceRange(asset)[1] * price.d <= price.n
    /\ price.n <= PriceRange(asset)[2] * price.d

\* the matches in the order the two loops visit them
Matches(t) == FindAll(1, t) \o FindAll(2, t) \o FindAll(3, t)

\* the value a match is validated with; NoPrice when float() raises
MatchValue(t, match) ==
    LET num_str == RemoveCommas(match)
    IN  IF FloatRaises(num_str) THEN NoPrice
        ELSE HandleKSuffix(t, num_str, Float(num_str))

RECURSIVE FirstValidFrom(_, _, _, _)
FirstValidFrom(t, ms, i, asset) ==
    IF i > Len(ms) THEN NoPrice
    ELSE LET value == MatchValue(t, ms[i])
         IN  IF ~value.isNone /\ is_valid_price(value, asset) THEN value
             ELSE FirstValidFrom(t, ms, i + 1, asset)

extract_price(t, asset) == FirstValidFrom(t, Matches(t), 1, asset)

----------------------------------------------------------------------------
(* Specification SpecExtract: extract_price on every bounded text *)

MaxText == 4

Alphabet == {"0", "1", ",", ".", "$", " ", "k", "K", "hit"}

\* "Bitcoin $120K" and "Will BTC hit $500?"
KSuffixExample == <<"Bitcoin", " ", "$", "1", "2", "0", "K">>
BoundsExample ==
    <<"Will", " ", "BTC", " ", "hit", " ", "$", "5", "0", "0", "?">>

Texts ==
    UNION {[1..n -> Alphabet] : n \in 0..MaxText}
        \cup {KSuffixExample, BoundsExample}

AssetKeys == {"btc", "eth", "sol"}

IdleEV ==
    /\ data = <<>>
    /\ current_price = 0
    /\ called = "none"
    /\ sorted_data = <<>>
    /\ marginal_probs = <<>>
    /\ prob_residual = 0
    /\ expected = None

InitExtract ==
    /\ IdleEV
    /\ IdleParse
    /\ question \in Texts
    /\ asset_key \in AssetKeys
    /\ extract_done = FALSE
    /\ extracted = NoPrice

ExtractPrice ==
    /\ ~extract_done
    /\ extract_done' = TRUE
    /\ extracted' = extract_price(question, asset_key)
    /\ UNCHANGED <<question, asset_key, evVars, paVars>>

NextExtract == ExtractPrice

SpecExtract == InitExtract /\ [][NextExtract]_vars

----------------------------------------------------------------------------
(* Claims about extract_price (checked under SpecExtract) *)

\* the well-formed numbers of the text that carry a k suffix, left to right
RECURSIVE KNumbersFrom(_, _)
KNumbersFrom(t, s) ==
    IF s > Len(t) THEN <<>>
    ELSE LET m == KPatternAt(t, s)
         IN  IF m.ok
             THEN <<SubSeq(t, m.from, m.to - 1)>> \o KNumbersFrom(t, m.end)
             ELSE KNumbersFrom(t, s + 1)

\* each with its numeric part times 1000
KSuffixed(t) ==
    LET ks == KNumbersFrom(t, 1)
    IN  [i \in 1..Len(ks) |-> Times1000(Float(RemoveCommas(ks[i])))]

\* the text's k-suffixed numbers are plain: pattern 1 and k_pattern cut the
\* same numbers out of it
PlainKText(t) == FindAll(1, t) = KNumbersFrom(t, 1)

InBounds(v, asset) ==
    \/ asset = "btc" /\ 10000 * v.d <= v.n /\ v.n <= 1000000 * v.d
    \/ asset = "eth" /\ 200 * v.d <= v.n /\ v.n <= 100000 * v.d
    \/ asset = "sol" /\ 5 * v.d <= v.n /\ v.n <= 10000 * v.d

\* C7: every k-suffixed number is a candidate worth its numeric part times
\* 1000; whenever one of them lies within the asset's bounds, extract_price
\* returns the leftmost such value, also with several k-suffixed numbers in
\* the text (and "Bitcoin $120K" gives 120000 for btc).  Stated for the
\* texts whose k-suffixed numbers are plain.
C7_KSuffixScaling ==
    (extract_done /\ PlainKText(question)) =>
        LET ks == KSuffixed(question)
            ok == {i \in 1..Len(ks) : InBounds(ks[i], asset_key)}
        IN  /\ ok # {} =>
                  extracted = ks[CHOOSE i \in ok : \A j \in ok : i <= j]
            /\ (question = KSuffixExample /\ asset_key = "btc")
                  => extracted = Price(120000, 1)

----------------------------------------------------------------------------
(* parse_markets.  A market record holds groupItemTitle and question (texts, *)
(* <<>> when absent or empty) and, for outcomes and outcomePrices, what      *)
(* market.get and json.loads make of the field: kind "missing" (the default  *)
(* '[]' is decoded), "invalid" (json.loads raises) or "array" with the       *)
(* decoded items.  An outcome is its name; an outcome price is the decoded   *)
(* string: numeric with its value in 1/10000, or one float() rejects.        *)

Items(field) == IF field.kind = "array" THEN field.items ELSE <<>>

\* 'yes' in o.lower()
IsYes(o) == o \in {"Yes", "yes", "YES"}

\* next((i for i, o in enumerate(outcomes) if 'yes' in o.lower()), 0),
\* counted from 1
YesIdx(outcomes) ==
    IF \E i \in 1..Len(outcomes) : IsYes(outcomes[i])
    THEN CHOOSE i \in 1..Len(outcomes) :
            /\ IsYes(outcomes[i])
            /\ \A j \in 1..(i - 1) : ~IsYes(outcomes[j])
    ELSE 1

\* round(float(p) * 100, 1) in tenths of a percent, p given in 1/10000
Round1(bp) ==
    LET q == bp \div 10
        r == bp % 10
    IN  IF r < 5 THEN q
        ELSE IF r > 5 THEN q + 1
        ELSE IF q % 2 = 0 THEN q ELSE q + 1

UpIndicators == {"reach", "uparrow", "hit"}
DownIndicators == {"dip", "drop", "fall", "downarrow"}

\* any(indicator in q_lower for indicator in [...])
ContainsAny(t, S) == \E i \in 1..Len(t) : t[i] \in S

\* market.get('groupItemTitle', '') or market.get('question', '')
Label(m) == IF m.groupItemTitle # <<>> THEN m.groupItemTitle ELSE m.question

\* lines 184-193
IsUpside(m) ==
    IF ContainsAny(Label(m), UpIndicators \cup DownIndicators)
    THEN ContainsAny(Label(m), UpIndicators)
    ELSE ContainsAny(m.question, {"reach"})

IsDownside(m) ==
    IF ContainsAny(Label(m), UpIndicators \cup DownIndicators)
    THEN ContainsAny(Label(m), DownIndicators)
    ELSE ContainsAny(m.question, {"dip", "drop"})

\* lines 171-176 raise: json.loads on either field, or float() on the price
\* picked
Raises(m) ==
    \/ m.outcomes.kind = "invalid"
    \/ m.outcomePrices.kind = "invalid"
    \/ /\ YesIdx(Items(m.outcomes)) <= Len(Items(m.outcomePrices))
       /\ ~Items(m.outcomePrices)[YesIdx(Items(m.outcomes))].numeric

\* line 176, rounded as at lines 198 and 204
Probability(m) ==
    IF YesIdx(Items(m.outcomes)) <= Len(Items(m.outcomePrices))
    THEN Round1(Items(m.outcomePrices)[YesIdx(Items(m.outcomes))].bp)
    ELSE 0

Target(price, probability, type) ==
    [price |-> price, probability |-> probability, type |-> type]

\* faulty variant: the two branches in the other order
RouteDownFirst(m) ==
    IF IsDownside(m) THEN "down" ELSE IF IsUpside(m) THEN "up" ELSE "skip"

\* lines 195-206: if is_upside ... elif is_downside ...
Route(m) ==
    IF IsUpside(m) THEN "up" ELSE IF IsDownside(m) THEN "down" ELSE "skip"

\* one pass of the loop body: the list appended to ("up", "down" or "skip")
\* and the entry
ParseMarket(m, asset) ==
    LET price == extract_price(Label(m), asset)
        type  == Route(m)
    IN  IF Raises(m) \/ price.isNone
        THEN [to |-> "skip", entry |-> Target(NoPrice, 0, "skip")]
        ELSE [to |-> type, entry |-> Target(price, Probability(m), type)]

\* the list `to` after the loop has gone through the first n markets
RECURSIVE Collected(_, _, _, _)
Collected(ev, n, asset, to) ==
    IF n = 0 THEN <<>>
    ELSE LET r == ParseMarket(ev[n], asset)
         IN  IF r.to = to
             THEN Append(Collected(ev, n - 1, asset, to), r.entry)
             ELSE Collected(ev, n - 1, asset, to)

\* faulty variant: the sort by probability runs downwards
RECURSIVE InsertByProbabilityDesc(_, _)
InsertByProbabilityDesc(s, x) ==
    IF s = <<>> THEN <<x>>
    ELSE IF s[Len(s)].probability >= x.probability THEN Append(s, x)
    ELSE Append(InsertByProbabilityDesc(SubSeq(s, 1, Len(s) - 1), x), s[Len(s)])

\* sorted(xs, key=probability): stable
RECURSIVE InsertByProbability(_, _)
InsertByProbability(s, x) ==
    IF s = <<>> THEN <<x>>
    ELSE IF s[Len(s)].probability <= x.probability THEN Append(s, x)
    ELSE Append(InsertByProbability(SubSeq(s, 1, Len(s) - 1), x), s[Len(s)])

RECURSIVE SortedByProbability(_)
SortedByProbability(xs) ==
    IF xs = <<>> THEN <<>>
    ELSE InsertByProbability(SortedByProbability(SubSeq(xs, 1, Len(xs) - 1)),
                             xs[Len(xs)])

\* list({m['price']: m for m in xs}.values()): a key keeps the place of its
\* first insertion and the value of its last
RECURSIVE DictValues(_)
DictValues(xs) ==
    IF xs = <<>> THEN <<>>
    ELSE LET d == DictValues(SubSeq(xs, 1, Len(xs) - 1))
             x == xs[Len(xs)]
         IN  IF \E i \in 1..Len(d) : d[i].price = x.price
             THEN [i \in 1..Len(d) |->
                      IF d[i].price = x.price THEN x ELSE d[i]]
             ELSE Append(d, x)

\* lines 212-213
RemoveDuplicates(xs) == DictValues(SortedByProbability(xs))

\* xs.sort(key=price), lines 215-216: stable, on float prices
PriceLE(a, b) == a.n * b.d <= b.n * a.d

RECURSIVE InsertByPrice(_, _)
InsertByPrice(s, x) ==
    IF s = <<>> THEN <<x>>
    ELSE IF PriceLE(s[Len(s)].price, x.price) THEN Append(s, x)
    ELSE Append(InsertByPrice(SubSeq(s, 1, Len(s) - 1), x), s[Len(s)])

RECURSIVE SortRec(_)
SortRec(xs) ==
    IF xs = <<>> THEN <<>>
    ELSE InsertByPrice(SortRec(SubSeq(xs, 1, Len(xs) - 1)), xs[Len(xs)])

\* faulty variant: the final sort is left out
NoSort(xs) == xs

SortLadder(xs) == SortRec(xs)

\* lines 211-218
Finish(xs) == SortLadder(RemoveDuplicates(xs))

parse_markets(ev, asset) ==
    [upside   |-> Finish(Collected(ev, Len(ev), asset, "up")),
     downside |-> Finish(Collected(ev, Len(ev), asset, "down"))]

----------------------------------------------------------------------------
(* Specification SpecParse: parse_markets on every bounded event, one loop  *)
(* iteration per step                                                       *)

MaxMarkets == 3

Reach10k == <<"reach", "$", "1", "0", "k">>
Reach20k == <<"reach", "2", "0", "k">>
Hit30K == <<"hit", " ", "3", "0", "K">>
Dip10k == <<"dip", "1", "0", "k">>
Drop20k == <<"drop", "$", "2", "0", "k">>
UpDown10k == <<"uparrow", "downarrow", "1", "0", "k">>
Bare20k == <<"2", "0", "k">>

Missing == [kind |-> "missing", items |-> <<>>]
Invalid == [kind |-> "invalid", items |-> <<>>]
Array(xs) == [kind |-> "array", items |-> xs]
Num(bp) == [numeric |-> TRUE, bp |-> bp]
NotNum == [numeric |-> FALSE, bp |-> 0]
YesNo == Array(<<"Yes", "No">>)
NoYes == Array(<<"No", "Yes">>)

Market(title, q, outcomes, prices) ==
    [groupItemTitle |-> title, question |-> q,
     outcomes |-> outcomes, outcomePrices |-> prices]

MarketPool ==
    { Market(<<>>, Reach10k, YesNo, Array(<<Num(7004), Num(2996)>>)),
      Market(<<>>, Reach10k, YesNo, Array(<<Num(2000), Num(8000)>>)),
      Market(Bare20k, Reach20k, NoYes, Array(<<Num(4444), Num(5556)>>)),
      Market(Dip10k, Dip10k, YesNo, Array(<<Num(3000), Num(7000)>>)),
      Market(Bare20k, Drop20k, YesNo, Array(<<Num(6000), Num(4000)>>)),
      Market(UpDown10k, UpDown10k, YesNo, Array(<<Num(9000), Num(1000)>>)),
      Market(Bare20k, Bare20k, YesNo, Array(<<Num(6000), Num(4000)>>)),
      Market(<<>>, Hit30K, YesNo, Missing),
      Market(<<>>, Hit30K, Invalid, Array(<<Num(7004), Num(2996)>>)),
      Market(<<>>, Hit30K, YesNo, Array(<<NotNum, Num(3000)>>)),
      Market(<<>>, Dip10k, NoYes, Array(<<Num(6000)>>)) }

Events == UNION {[1..n -> MarketPool] : n \in 0..MaxMarkets}

ParseAssets == {"btc", "sol"}

InitParse ==
    /\ IdleEV
    /\ question = <<>>
    /\ extract_done = FALSE
    /\ extracted = NoPrice
    /\ asset_key \in ParseAssets
    /\ event \in Events
    /\ idx = 0
    /\ upside = <<>>
    /\ downside = <<>>
    /\ parse_done = FALSE

\* one iteration of the for loop, lines 168-209
LoopMarket ==
    /\ ~parse_done
    /\ idx < Len(event)
    /\ idx' = idx + 1
    /\ LET r == ParseMarket(event[idx + 1], asset_key)
       IN  /\ upside' = IF r.to = "up" THEN Append(upside, r.entry) ELSE upside
           /\ downside' =
                  IF r.to = "down" THEN Append(downside, r.entry) ELSE downside
    /\ UNCHANGED <<event, parse_done, evVars, exVars>>

\* lines 211-218
DedupSortReturn ==
    /\ ~parse_done
    /\ idx = Len(event)
    /\ upside' = Finish(upside)
    /\ downside' = Finish(downside)
    /\ parse_done' = TRUE
    /\ UNCHANGED <<event, idx, evVars, exVars>>

NextParse == LoopMarket \/ DedupSortReturn

SpecParse == InitParse /\ [][NextParse]_vars

----------------------------------------------------------------------------
(* Claims about parse_markets (checked under SpecParse) *)

RemoveAt(xs, i) == SubSeq(xs, 1, i - 1) \o SubSeq(xs, i + 1, Len(xs))

\* the record's outcomes or outcomePrices array is missing or malformed
BadArrays(m) == m.outcomes.kind # "array" \/ m.outcomePrices.kind # "array"

\* C2: a record whose outcomes or outcomePrices array is missing or
\* malformed is skipped: the ladders returned equal those returned for the
\* event without that record.
C2_BadRecordSkipped ==
    parse_done =>
        \A i \in 1..Len(event) :
            BadArrays(event[i]) =>
                /\ upside = parse_markets(RemoveAt(event, i), asset_key).upside
                /\ downside
                      = parse_markets(RemoveAt(event, i), asset_key).downside

\* the entries the loop collected for one direction, before lines 211-218
Parsed(type) == Collected(event, Len(event), asset_key, type)

PricesOf(xs) == {xs[i].price : i \in 1..Len(xs)}

MaxProbability(xs, price) ==
    CHOOSE c \in {xs[i].probability : i \in {j \in 1..Len(xs) : xs[j].price = price}} :
        \A i \in 1..Len(xs) : xs[i].price = price => xs[i].probability <= c

DedupOf(ladder, parsed) ==
    /\ PricesOf(ladder) = PricesOf(parsed)
    /\ \A i, j \in 1..Len(ladder) :
          ladder[i].price = ladder[j].price => i = j
    /\ \A i \in 1..Len(ladder) :
          ladder[i].probability = MaxProbability(parsed, ladder[i].price)

\* C5: for each direction and each price among the parsed entries, the
\* returned ladder holds exactly one entry with that price, and its
\* probability is the highest among the parsed entries with that price,
\* whatever the order of the markets.
C5_Dedup ==
    parse_done =>
        /\ DedupOf(upside, Parsed("up"))
        /\ DedupOf(downside, Parsed("down"))

\* two parsed entries share a price, the more probable one comes first
C5_Witness ==
    /\ parse_done
    /\ \E i, j \in 1..Len(Parsed("up")) :
          /\ i < j
          /\ Parsed("up")[i].price = Parsed("up")[j].price
          /\ Parsed("up")[i].probability > Parsed("up")[j].probability
    /\ Len(upside) = 2

StrictlyAscending(xs) ==
    \A i \in 1..(Len(xs) - 1) :
        xs[i].price.n * xs[i + 1].price.d < xs[i + 1].price.n * xs[i].price.d

\* C9: both returned ladders are ordered strictly ascending by price.
C9_Ascending ==
    parse_done => StrictlyAscending(upside) /\ StrictlyAscending(downside)

\* the markets came in descending price order, one price twice
C9_Witness ==
    /\ parse_done
    /\ Len(Parsed("up")) = 3
    /\ Len(upside) = 2
    /\ ~StrictlyAscending(Parsed("up"))
    /\ Len(downside) = 0

\* C6: a record contributes to at most one ladder; a record whose label
\* holds both an upside and a downside marker goes to the upside ladder
\* only; a record in which no marker is found goes to neither.
C6_Routing ==
    [][idx' = idx + 1 =>
        LET m == event[idx']
            both == /\ ContainsAny(Label(m), {"reach", "uparrow", "hit"})
                    /\ ContainsAny(Label(m),
                                   {"dip", "drop", "fall", "downarrow"})
            none == /\ ~ContainsAny(Label(m), {"reach", "uparrow", "hit",
                                               "dip", "drop", "fall",
                                               "downarrow"})
                    /\ ~ContainsAny(m.question, {"reach", "uparrow", "hit",
                                                 "dip", "drop", "fall",
                                                 "downarrow"})
        IN  /\ upside' = upside \/ downside' = downside
            /\ upside' = upside
                  \/ (Len(upside') = Len(upside) + 1
                        /\ SubSeq(upside', 1, Len(upside)) = upside)
            /\ downside' = downside
                  \/ (Len(downside') = Len(downside) + 1
                        /\ SubSeq(downside', 1, Len(downside)) = downside)
            /\ both => downside' = downside
            /\ (both /\ ~Raises(m) /\ ~extract_price(Label(m), asset_key).isNone)
                  => Len(upside') = Len(upside) + 1
            /\ none => (upside' = upside /\ downside' = downside)
    ]_vars

\* a record with both markers has just been put in the upside list
C6_Witness ==
    /\ ~parse_done
    /\ idx = 2
    /\ ContainsAny(Label(event[idx]), {"reach", "uparrow", "hit"})
    /\ ContainsAny(Label(event[idx]), {"dip", "drop", "fall", "downarrow"})
    /\ Len(upside) = 1
    /\ Len(downside) = 1

====
